---- MODULE Spec2Model ----
(***************************************************************************)
(* Model of server.js: the contact-form backend.                           *)
(*   POST /api/contact  -> contactLimiter, validation, sanitizeString,     *)
(*                         readMessages / unshift / writeMessages          *)
(*   GET  /api/messages -> requireAdmin, readMessages                      *)
(* Node runs every handler to completion on one thread and the handlers    *)
(* use only synchronous file calls (readFileSync, writeFileSync), so a     *)
(* handler is one atomic step.  Concurrency is the set of requests that    *)
(* clients have issued and the server has not handled yet; the server      *)
(* handles them in any order.                                              *)
(***************************************************************************)
EXTENDS Integers, Sequences, FiniteSets, TLC

VARIABLES
    now,           \* the clock behind Date.now(), in ms since the process started
    messagesFile,  \* the content of MESSAGES_FILE
    rateWindows,   \* contactLimiter's window of every address
    env,           \* process.env: ADMIN_USER and ADMIN_PASS
    inflight,      \* the requests issued and not yet handled, by connection
    last,          \* the last request handled and the response it got
    accepted,      \* history: the messages answered {ok: true}, newest first
    stopped        \* history: what accepted was when the process last stopped

vars == <<now, messagesFile, rateWindows, env, inflight, last, accepted, stopped>>

(* ------------------------------ bounds -------------------------------- *)
TickMs == 30000          \* granularity of the modelled clock, in ms
MaxTicks == 1            \* Spec: the clock advances at most this many times
MaxInflight == 2         \* Spec: requests issued and not yet handled
MaxHits == 2             \* Spec: requests of one address in one window
MaxStored == 2           \* Spec: valid submissions
MaxStoredText == 1       \* SpecText: valid submissions
MaxTicksRate == 2        \* SpecRate: the clock advances at most this many times
MaxStoredAuth == 1       \* SpecAuth: valid submissions
MaxStoredRestart == 2    \* SpecRestart: valid submissions

(* ------------------------- program constants -------------------------- *)
windowMs == 60000        \* contactLimiter windowMs: 60 * 1000
maxOffByOne == 6 + 1
max == 6                 \* contactLimiter max
MaxMessageLength == 5000 \* String(message).length > 5000

(* ------------------------------- text --------------------------------- *)
(* A string is a sequence of runs: n repetitions of the unit c.  A unit is *)
(* one character, or one of the four-character entities "&lt;" and "&gt;". *)
Run(c, n) == [c |-> c, n |-> n]

Width(c) == IF c \in {"&lt;", "&gt;"} THEN 4 ELSE 1

RECURSIVE StrLen(_)
StrLen(s) == IF s = <<>> THEN 0
             ELSE Head(s).n * Width(Head(s).c) + StrLen(Tail(s))

RECURSIVE Reverse(_)
Reverse(s) == IF s = <<>> THEN <<>> ELSE Reverse(Tail(s)) \o <<Head(s)>>

RECURSIVE TrimStart(_)
TrimStart(s) == IF s # <<>> /\ Head(s).c = " " THEN TrimStart(Tail(s)) ELSE s

\* String.prototype.trim: strips the whitespace at both ends
trim(s) == Reverse(TrimStart(Reverse(TrimStart(s))))

\* String.prototype.replace with a global pattern: every occurrence
RECURSIVE replaceAll(_, _, _)
replaceAll(s, from, to) ==
    IF s = <<>> THEN <<>>
    ELSE <<IF Head(s).c = from THEN Run(to, Head(s).n) ELSE Head(s)>>
         \o replaceAll(Tail(s), from, to)

(* A JSON value of the request body, by what the handler observes of it:   *)
(* its truthiness and its String() coercion.                               *)
JsUndefined == [kind |-> "undefined", text |-> <<>>]
JsStr(s) == [kind |-> "string", text |-> s]
JsArr(s) == [kind |-> "array", text |-> s]   \* the array [s]; [] when s is empty

\* !v is false exactly for truthy v: a non-empty string, or any array
Truthy(v) == \/ v.kind = "array"
             \/ v.kind = "string" /\ v.text # <<>>

\* String(v)
String(v) ==
    IF v.kind = "undefined"
    THEN <<Run("u", 1), Run("n", 1), Run("d", 1), Run("e", 1), Run("f", 1),
           Run("i", 1), Run("n", 1), Run("e", 1), Run("d", 1)>>
    ELSE v.text

sanitizeStringOneSided(v) ==
    IF ~Truthy(v) THEN <<>>
    ELSE replaceAll(trim(String(v)), "<", "&lt;")

sanitizeStringNoTrim(v) ==
    IF ~Truthy(v) THEN <<>>
    ELSE replaceAll(replaceAll(String(v), "<", "&lt;"), ">", "&gt;")

\* sanitizeString, lines 62-65
sanitizeString(v) ==
    IF ~Truthy(v) THEN <<>>
    ELSE replaceAll(replaceAll(trim(String(v)), "<", "&lt;"), ">", "&gt;")

\* does the stored string contain the character ch
Contains(s, ch) == \E i \in 1..Len(s) : s[i].c = ch /\ s[i].n > 0

(* ------------------------------ inputs -------------------------------- *)
(* Every body below is shorter than the 10kb that bodyParser.json accepts, *)
(* so every request reaches the limiter and the handler.                   *)
Addrs == {"10.0.0.1", "10.0.0.2"}

Plain == <<Run("a", 1)>>                              \* "a"
Other == <<Run("b", 1)>>                              \* "b"
Blank == <<Run(" ", 1)>>                              \* " "
Tag == <<Run("<", 1), Run("a", 1), Run(">", 1)>>      \* "<a>"
Padded == <<Run(" ", 1), Run("a", 1), Run(" ", 1)>>   \* " a "
Longest == <<Run("a", MaxMessageLength)>>             \* 5000 times "a"
TooLong == <<Run("a", MaxMessageLength + 1)>>         \* 5001 times "a"
LongestTags == <<Run("<", MaxMessageLength)>>         \* 5000 times "<"

Body(n, e, m) == [name |-> n, email |-> e, message |-> m]

\* req.body || {}: a request without a body has every field undefined
NoBody == Body(JsUndefined, JsUndefined, JsUndefined)

\* the submissions of Spec and SpecRate: two valid ones and an invalid one
Bodies == { Body(JsStr(Plain), JsStr(Plain), JsStr(Plain)),
            Body(JsStr(Other), JsStr(Plain), JsStr(Plain)),
            NoBody }

\* the submissions of SpecText: the cases of validation and sanitization
TextBodies ==
    { Body(JsStr(Plain), JsStr(Plain), JsStr(Plain)),
      Body(JsStr(Tag), JsStr(Tag), JsStr(Tag)),
      Body(JsStr(Blank), JsStr(Plain), JsStr(Plain)),
      Body(JsStr(Plain), JsStr(Blank), JsStr(Padded)),
      Body(JsStr(Plain), JsStr(Plain), JsStr(Blank)),
      Body(JsArr(<<>>), JsStr(Plain), JsStr(Plain)),
      Body(JsArr(Tag), JsStr(Plain), JsArr(Tag)),
      Body(JsStr(<<>>), JsStr(Plain), JsStr(Plain)),
      Body(JsStr(Plain), JsUndefined, JsStr(Plain)),
      Body(JsStr(Plain), JsStr(Plain), JsStr(<<>>)),
      Body(JsStr(Plain), JsStr(Plain), JsStr(Longest)),
      Body(JsStr(Plain), JsStr(Plain), JsStr(TooLong)),
      Body(JsStr(Plain), JsStr(Plain), JsStr(LongestTags)),
      NoBody }

\* what basicAuth(req) yields: undefined, or the name and pass of the header
NoAuth == [given |-> FALSE, name |-> "", pass |-> ""]
Auth(n, p) == [given |-> TRUE, name |-> n, pass |-> p]
UserNames == {"admin", "root", "guest"}
Passwords == {"password", "s3cret", "wrong"}
Credentials == {NoAuth} \cup {Auth(n, p) : n \in UserNames, p \in Passwords}

\* process.env.ADMIN_USER / ADMIN_PASS; "" stands for an unset variable
Environments == { [ADMIN_USER |-> "", ADMIN_PASS |-> ""],
                  [ADMIN_USER |-> "root", ADMIN_PASS |-> "s3cret"],
                  [ADMIN_USER |-> "root", ADMIN_PASS |-> ""] }

(* ------------------------------- store -------------------------------- *)
(* MESSAGES_FILE on disk.  kind "json": the file holds JSON.stringify(msgs);*)
(* "empty": the file has length 0; "malformed": the file holds a proper    *)
(* prefix of a JSON document, which JSON.parse rejects; "absent": there   *)
(* is no file.                                                             *)
AbsentFile == [kind |-> "absent", msgs |-> <<>>]
JsonFile(msgs) == [kind |-> "json", msgs |-> msgs]
EmptyFile == [kind |-> "empty", msgs |-> <<>>]
MalformedFile == [kind |-> "malformed", msgs |-> <<>>]

\* fs.readFileSync either returns the content or throws (EIO, EMFILE, EACCES)
ReadOutcomes == {"ok", "throws"}

(* readMessages(): the try block returns JSON.parse(raw || '[]'); the catch *)
(* logs the error and returns [].  caught is history: the caller cannot    *)
(* tell a caught error from an empty collection.                           *)
readMessages(file, outcome) ==
    IF outcome = "throws" \/ file.kind = "absent" THEN [caught |-> TRUE, msgs |-> <<>>]
    ELSE IF file.kind = "malformed" THEN [caught |-> TRUE, msgs |-> <<>>]
    ELSE IF file.kind = "empty" THEN [caught |-> FALSE, msgs |-> <<>>]
    ELSE [caught |-> FALSE, msgs |-> file.msgs]

(* fs.writeFileSync opens the file with O_TRUNC and then writes the text in *)
(* place.  It either completes, or throws: before the open truncated the   *)
(* file ("throwsAtOpen": EACCES, EMFILE), after the truncation and before  *)
(* any byte was written ("throwsEmpty": ENOSPC, EIO), or after a part of   *)
(* the text was written ("throwsPartial").                                 *)
WriteOutcomes == {"ok", "throwsAtOpen", "throwsEmpty", "throwsPartial"}

writeMessages(file, msgs, outcome) ==
    CASE outcome = "ok" -> [threw |-> FALSE, file |-> JsonFile(msgs)]
      [] outcome = "throwsAtOpen" -> [threw |-> TRUE, file |-> file]
      [] outcome = "throwsEmpty" -> [threw |-> TRUE, file |-> EmptyFile]
      [] outcome = "throwsPartial" -> [threw |-> TRUE, file |-> MalformedFile]

startupAlwaysWrites(file) == JsonFile(<<>>)

\* line 30: if (!fs.existsSync(MESSAGES_FILE)) fs.writeFileSync(MESSAGES_FILE, '[]')
startup(file) == IF file.kind = "absent" THEN JsonFile(<<>>) ELSE file

\* messages.unshift(sanitized): the new message goes to the head
unshiftAtTail(messages, m) == messages \o <<m>>

unshift(messages, m) == <<m>> \o messages

(* --------------------------- Admission Gate --------------------------- *)
(* contactLimiter = rateLimit({windowMs, max, message}).  The library is   *)
(* not part of the sources; its fixed-window counter is the one the        *)
(* specification's section 4.2 describes: a window per address, started by *)
(* the first request and restarted once windowMs have elapsed; the count   *)
(* stops at the first value over max.                                      *)
NoWindow == [start |-> 0, count |-> 0]

contactLimiter(w, t) ==
    IF w.count = 0 \/ t - w.start >= windowMs
    THEN [start |-> t, count |-> 1]
    ELSE [start |-> w.start,
          count |-> IF w.count <= max THEN w.count + 1 ELSE w.count]

\* the limiter calls next() while the count is within max, else answers 429
Admits(w) == w.count <= max

(* ----------------------------- Access Gate ---------------------------- *)
\* process.env.ADMIN_USER || 'admin', process.env.ADMIN_PASS || 'password'
adminUser(e) == IF e.ADMIN_USER # "" THEN e.ADMIN_USER ELSE "admin"
adminPass(e) == IF e.ADMIN_PASS # "" THEN e.ADMIN_PASS ELSE "password"

requireAdminPassOnly(user, e) == ~user.given \/ user.pass # adminPass(e)

\* requireAdmin: TRUE when the request is answered 401, FALSE when next() runs
requireAdmin(user, e) ==
    \/ ~user.given
    \/ user.name # adminUser(e)
    \/ user.pass # adminPass(e)

(* ------------------------ requests and responses ---------------------- *)
Free == [method |-> "none", ip |-> "", body |-> NoBody, auth |-> NoAuth]
Post(ip, body) == [method |-> "POST", ip |-> ip, body |-> body, auth |-> NoAuth]
Get(auth) == [method |-> "GET", ip |-> "", body |-> NoBody, auth |-> auth]

(* A response: the status, the error text of a JSON error body or the text *)
(* of a plain body, the WWW-Authenticate header, the JSON array of a GET.  *)
(* storeRead, storeWrote and readError are history: whether the handler    *)
(* called readMessages and writeMessages, and whether readMessages caught  *)
(* an error.                                                               *)
Response(req, status, text, www, json, storeRead, storeWrote, readError) ==
    [req |-> req, status |-> status, text |-> text, www |-> www, json |-> json,
     storeRead |-> storeRead, storeWrote |-> storeWrote, readError |-> readError]

NoResponse == Response(Free, 0, "", "", <<>>, FALSE, FALSE, FALSE)

validateOffByOne(body) ==
    IF ~Truthy(body.name) \/ ~Truthy(body.email) \/ ~Truthy(body.message)
    THEN "Name, email and message are required."
    ELSE IF StrLen(String(body.message)) >= MaxMessageLength
    THEN "Message too long."
    ELSE ""

\* the validation of lines 72-77: "" when the body passes, else the error
validate(body) ==
    IF ~Truthy(body.name) \/ ~Truthy(body.email) \/ ~Truthy(body.message)
    THEN "Name, email and message are required."
    ELSE IF StrLen(String(body.message)) > MaxMessageLength
    THEN "Message too long."
    ELSE ""

\* the object built at lines 79-86; id and receivedAt read the same clock
sanitized(req, t) ==
    [id |-> t,
     name |-> sanitizeString(req.body.name),
     email |-> sanitizeString(req.body.email),
     message |-> sanitizeString(req.body.message),
     ip |-> req.ip,
     receivedAt |-> t]

postContactStoreFirst(req, w, file, t, ro, wo) ==
    LET w2 == contactLimiter(w, t)
        m == sanitized(req, t)
        rd == readMessages(file, ro)
        wr == writeMessages(file, unshift(rd.msgs, m), wo)
    IN  IF ~Admits(w2)
        THEN [window |-> w2, file |-> file, stored |-> <<>>,
              resp |-> Response(req, 429, "Too many submissions, please wait a bit.",
                                "", <<>>, FALSE, FALSE, FALSE)]
        ELSE IF wr.threw
        THEN [window |-> w2, file |-> wr.file, stored |-> <<>>,
              resp |-> Response(req, 500, "Server error saving message.", "", <<>>,
                                TRUE, TRUE, rd.caught)]
        ELSE IF validate(req.body) # ""
        THEN [window |-> w2, file |-> wr.file, stored |-> <<>>,
              resp |-> Response(req, 400, validate(req.body), "", <<>>,
                                TRUE, TRUE, rd.caught)]
        ELSE [window |-> w2, file |-> wr.file, stored |-> <<m>>,
              resp |-> Response(req, 200, "Message received. Thank you!", "", <<>>,
                                TRUE, TRUE, rd.caught)]

postContactValidateFirst(req, w, file, t, ro, wo) ==
    LET w2 == contactLimiter(w, t)
        m == sanitized(req, t)
        rd == readMessages(file, ro)
        wr == writeMessages(file, unshift(rd.msgs, m), wo)
    IN  IF validate(req.body) # ""
        THEN [window |-> w, file |-> file, stored |-> <<>>,
              resp |-> Response(req, 400, validate(req.body), "", <<>>,
                                FALSE, FALSE, FALSE)]
        ELSE IF ~Admits(w2)
        THEN [window |-> w2, file |-> file, stored |-> <<>>,
              resp |-> Response(req, 429, "Too many submissions, please wait a bit.",
                                "", <<>>, FALSE, FALSE, FALSE)]
        ELSE IF wr.threw
        THEN [window |-> w2, file |-> wr.file, stored |-> <<>>,
              resp |-> Response(req, 500, "Server error saving message.", "", <<>>,
                                TRUE, TRUE, rd.caught)]
        ELSE [window |-> w2, file |-> wr.file, stored |-> <<m>>,
              resp |-> Response(req, 200, "Message received. Thank you!", "", <<>>,
                                TRUE, TRUE, rd.caught)]

(* app.post('/api/contact', contactLimiter, handler): what the request      *)
(* does to the window, the file and the history, and the response.         *)
postContact(req, w, file, t, ro, wo) ==
    LET w2 == contactLimiter(w, t)
        m == sanitized(req, t)
        rd == readMessages(file, ro)
        wr == writeMessages(file, unshift(rd.msgs, m), wo)
    IN  IF ~Admits(w2)
        THEN [window |-> w2, file |-> file, stored |-> <<>>,
              resp |-> Response(req, 429, "Too many submissions, please wait a bit.",
                                "", <<>>, FALSE, FALSE, FALSE)]
        ELSE IF validate(req.body) # ""
        THEN [window |-> w2, file |-> file, stored |-> <<>>,
              resp |-> Response(req, 400, validate(req.body), "", <<>>,
                                FALSE, FALSE, FALSE)]
        ELSE IF wr.threw
        THEN [window |-> w2, file |-> wr.file, stored |-> <<>>,
              resp |-> Response(req, 500, "Server error saving message.", "", <<>>,
                                TRUE, TRUE, rd.caught)]
        ELSE [window |-> w2, file |-> wr.file, stored |-> <<m>>,
              resp |-> Response(req, 200, "Message received. Thank you!", "", <<>>,
                                TRUE, TRUE, rd.caught)]

\* app.get('/api/messages', requireAdmin, handler)
getMessages(req, e, file, ro) ==
    IF requireAdmin(req.auth, e)
    THEN Response(req, 401, "Authentication required.",
                  "Basic realm=\"Admin Area\"", <<>>, FALSE, FALSE, FALSE)
    ELSE LET rd == readMessages(file, ro)
         IN  Response(req, 200, "", "", rd.msgs, TRUE, FALSE, rd.caught)

getMessagesFileRepairing(req, e, file, ro) ==
    IF ~requireAdmin(req.auth, e) /\ readMessages(file, ro).caught
    THEN JsonFile(<<>>)
    ELSE file

\* the file after a GET: neither requireAdmin nor the handler writes it
getMessagesFile(req, e, file, ro) == file

(* ------------------------------ actions ------------------------------- *)
(* P gives the inputs and bounds of a specification: addrs, bodies, creds, *)
(* envs, readOutcomes, writeOutcomes, maxInflight, maxHits, maxStored,     *)
(* maxTicks.                                                               *)
Slots(P) == 1..P.maxInflight

PostsInflight(P, ip) ==
    Cardinality({s \in Slots(P) : inflight[s].method = "POST" /\ inflight[s].ip = ip})

ValidInflight(P) ==
    Cardinality({s \in Slots(P) : inflight[s].method = "POST"
                                  /\ validate(inflight[s].body) = ""})

\* lines 28-30 on a first run: the data directory and the file are created
InitWith(P) ==
    /\ now = 0
    /\ messagesFile = startup(AbsentFile)
    /\ rateWindows = [a \in P.addrs |-> NoWindow]
    /\ env \in P.envs
    /\ inflight = [s \in Slots(P) |-> Free]
    /\ last = NoResponse
    /\ accepted = <<>>
    /\ stopped = <<>>

\* a client at address ip sends POST /api/contact
IssuePost(P, s, ip, body) ==
    /\ inflight[s] = Free
    /\ rateWindows[ip].count + PostsInflight(P, ip) < P.maxHits
    /\ validate(body) = "" => Len(accepted) + ValidInflight(P) < P.maxStored
    /\ inflight' = [inflight EXCEPT ![s] = Post(ip, body)]
    /\ UNCHANGED <<now, messagesFile, rateWindows, env, last, accepted, stopped>>

\* a client sends GET /api/messages
IssueGet(P, s, auth) ==
    /\ inflight[s] = Free
    /\ inflight' = [inflight EXCEPT ![s] = Get(auth)]
    /\ UNCHANGED <<now, messagesFile, rateWindows, env, last, accepted, stopped>>

\* the server handles a POST: limiter and handler run to completion
HandlePost(P, s, ro, wo) ==
    /\ inflight[s].method = "POST"
    /\ LET req == inflight[s]
           out == postContact(req, rateWindows[req.ip], messagesFile, now, ro, wo)
       IN  /\ rateWindows' = [rateWindows EXCEPT ![req.ip] = out.window]
           /\ messagesFile' = out.file
           /\ last' = out.resp
           /\ accepted' = out.stored \o accepted
    /\ inflight' = [inflight EXCEPT ![s] = Free]
    /\ UNCHANGED <<now, env, stopped>>

\* the server handles a GET
HandleGet(P, s, ro) ==
    /\ inflight[s].method = "GET"
    /\ last' = getMessages(inflight[s], env, messagesFile, ro)
    /\ messagesFile' = getMessagesFile(inflight[s], env, messagesFile, ro)
    /\ inflight' = [inflight EXCEPT ![s] = Free]
    /\ UNCHANGED <<now, rateWindows, env, accepted, stopped>>

\* the clock advances
Tick(P) ==
    /\ now + TickMs <= P.maxTicks * TickMs
    /\ now' = now + TickMs
    /\ UNCHANGED <<messagesFile, rateWindows, env, inflight, last, accepted, stopped>>

(* The process stops and is started again on the same data path: the       *)
(* requests in flight and the rate windows are gone, lines 28-30 run.      *)
Restart(P) ==
    /\ messagesFile' = startup(messagesFile)
    /\ rateWindows' = [a \in P.addrs |-> NoWindow]
    /\ inflight' = [s \in Slots(P) |-> Free]
    /\ last' = NoResponse
    /\ stopped' = accepted
    /\ UNCHANGED <<now, env, accepted>>

NextWith(P) ==
    \/ \E s \in Slots(P), ip \in P.addrs, body \in P.bodies : IssuePost(P, s, ip, body)
    \/ \E s \in Slots(P), auth \in P.creds : IssueGet(P, s, auth)
    \/ \E s \in Slots(P), ro \in P.readOutcomes, wo \in P.writeOutcomes :
          HandlePost(P, s, ro, wo)
    \/ \E s \in Slots(P), ro \in P.readOutcomes : HandleGet(P, s, ro)
    \/ Tick(P)

(* --------------------------- specifications --------------------------- *)
Unset == [ADMIN_USER |-> "", ADMIN_PASS |-> ""]

\* Spec: the store under concurrent requests and file system errors
StoreParams ==
    [addrs |-> {"10.0.0.1"}, bodies |-> Bodies,
     creds |-> {NoAuth, Auth("admin", "password")}, envs |-> {Unset},
     readOutcomes |-> ReadOutcomes, writeOutcomes |-> WriteOutcomes,
     maxInflight |-> MaxInflight, maxHits |-> MaxHits, maxStored |-> MaxStored,
     maxTicks |-> MaxTicks]

Init == InitWith(StoreParams)
Next == NextWith(StoreParams)
Spec == Init /\ [][Next]_vars

\* SpecText: validation and sanitization of the submitted text
TextParams ==
    [addrs |-> {"10.0.0.1"}, bodies |-> TextBodies,
     creds |-> {Auth("admin", "password")}, envs |-> {Unset},
     readOutcomes |-> {"ok"}, writeOutcomes |-> {"ok"},
     maxInflight |-> 1, maxHits |-> max, maxStored |-> MaxStoredText,
     maxTicks |-> MaxTicks]

InitText == InitWith(TextParams)
NextText == NextWith(TextParams)
SpecText == InitText /\ [][NextText]_vars

\* SpecRate: the rate limit of two addresses over two windows
RateParams ==
    [addrs |-> Addrs, bodies |-> {Body(JsStr(Plain), JsStr(Plain), JsStr(Plain)), NoBody},
     creds |-> {NoAuth}, envs |-> {Unset},
     readOutcomes |-> {"ok"}, writeOutcomes |-> {"ok"},
     maxInflight |-> 1, maxHits |-> max + 2, maxStored |-> 1,
     maxTicks |-> MaxTicksRate]

InitRate == InitWith(RateParams)
NextRate == NextWith(RateParams)
SpecRate == InitRate /\ [][NextRate]_vars

\* SpecAuth: every presented identity against every configuration
AuthParams ==
    [addrs |-> {"10.0.0.1"}, bodies |-> {Body(JsStr(Plain), JsStr(Plain), JsStr(Plain))},
     creds |-> Credentials, envs |-> Environments,
     readOutcomes |-> ReadOutcomes, writeOutcomes |-> {"ok"},
     maxInflight |-> 1, maxHits |-> max, maxStored |-> MaxStoredAuth,
     maxTicks |-> MaxTicks]

InitAuth == InitWith(AuthParams)
NextAuth == NextWith(AuthParams)
SpecAuth == InitAuth /\ [][NextAuth]_vars

\* SpecRestart: the store across stops and starts of the process
RestartParams ==
    [addrs |-> {"10.0.0.1"}, bodies |-> Bodies,
     creds |-> {Auth("admin", "password")}, envs |-> {Unset},
     readOutcomes |-> ReadOutcomes, writeOutcomes |-> WriteOutcomes,
     maxInflight |-> 1, maxHits |-> max, maxStored |-> MaxStoredRestart,
     maxTicks |-> MaxTicks]

InitRestart == InitWith(RestartParams)
NextRestart == NextWith(RestartParams) \/ Restart(RestartParams)
SpecRestart == InitRestart /\ [][NextRestart]_vars

(* ------------------------------- claims ------------------------------- *)
\* the collection a reader of the file can get: the array the file holds
Collection(file) == IF file.kind = "json" THEN file.msgs ELSE <<>>

\* no request is in flight
Quiet == \A s \in DOMAIN inflight : inflight[s] = Free

\* this step handles the request of connection s
Handles(s, method) ==
    inflight[s].method = method /\ inflight'[s] = Free /\ last'.req = inflight[s]

\* how many times the character ch occurs in the string s
RECURSIVE Occurrences(_, _)
Occurrences(s, ch) ==
    IF s = <<>> THEN 0
    ELSE (IF Head(s).c = ch THEN Head(s).n ELSE 0) + Occurrences(Tail(s), ch)

Fields(m) == {m.name, m.email, m.message}

(* C1: once every issued POST has been handled, the persisted collection   *)
(* holds one entry for every request that was answered {ok: true}: no      *)
(* append overwrites the effect of another.                                *)
C1_NoLostUpdates ==
    Quiet => Len(Collection(messagesFile)) = Len(accepted)

(* C2: the messages of the persisted collection have pairwise distinct     *)
(* ids, also when two requests are handled at the same clock reading.      *)
C2_DistinctIds ==
    LET msgs == Collection(messagesFile)
    IN  \A i, j \in 1..Len(msgs) : i # j => msgs[i].id # msgs[j].id

(* C3: the array a GET returns is in reverse insertion order: its i-th     *)
(* entry is the i-th most recently accepted message, so the most recent    *)
(* append comes first.                                                     *)
C3_NewestFirst ==
    (last.req.method = "GET" /\ last.status = 200) =>
        /\ Len(last.json) <= Len(accepted)
        /\ \A i \in 1..Len(last.json) : last.json[i] = accepted[i]

\* a GET has returned two different messages
C3_Witness ==
    /\ last.req.method = "GET" /\ last.status = 200
    /\ Len(last.json) >= 2
    /\ last.json[1] # last.json[2]

(* C4: an authorized GET during which reading or parsing the file failed   *)
(* is answered with a storage error (500), never with 200 and an empty     *)
(* array.                                                                  *)
C4_ReadErrorIsReported ==
    (last.req.method = "GET" /\ last.readError) =>
        last.status = 500 /\ ~(last.status = 200 /\ last.json = <<>>)

(* C5: a POST answered with a storage failure (500) leaves the file as it  *)
(* was before the request.                                                 *)
C5_FailedAppendLeavesStoreIntact ==
    [][\A s \in DOMAIN inflight :
          (Handles(s, "POST") /\ last'.status = 500) => messagesFile' = messagesFile]_vars

(* C6: every persisted message has a non-empty name, email and message and *)
(* a message of at most 5000 characters, as stored.                        *)
C6_StoredSatisfyConstraints ==
    LET msgs == Collection(messagesFile)
    IN  \A i \in 1..Len(msgs) :
            /\ StrLen(msgs[i].name) > 0
            /\ StrLen(msgs[i].email) > 0
            /\ StrLen(msgs[i].message) > 0
            /\ StrLen(msgs[i].message) <= 5000

(* C7: no field of a persisted or returned message contains a raw "<" or   *)
(* ">", and an accepted submission is stored with one "&lt;" for every "<" *)
(* and one "&gt;" for every ">" of the submitted text.                     *)
C7_NoRawMarkup ==
    /\ \A i \in 1..Len(Collection(messagesFile)) :
          \A f \in Fields(Collection(messagesFile)[i]) :
              ~Contains(f, "<") /\ ~Contains(f, ">")
    /\ \A i \in 1..Len(last.json) :
          \A f \in Fields(last.json[i]) : ~Contains(f, "<") /\ ~Contains(f, ">")
    /\ (last.req.method = "POST" /\ last.status = 200) =>
          LET b == last.req.body
              m == Collection(messagesFile)[1]
              Escaped(v, f) ==
                  /\ Occurrences(f, "&lt;") = Occurrences(String(v), "<")
                  /\ Occurrences(f, "&gt;") = Occurrences(String(v), ">")
          IN  /\ Escaped(b.name, m.name)
              /\ Escaped(b.email, m.email)
              /\ Escaped(b.message, m.message)

\* the submission "<a>" is persisted as "&lt;a&gt;"
C7_Witness ==
    /\ last.req.method = "POST" /\ last.status = 200
    /\ last.req.body.name = JsStr(Tag)
    /\ Len(Collection(messagesFile)) >= 1
    /\ Collection(messagesFile)[1].name = <<Run("&lt;", 1), Run("a", 1), Run("&gt;", 1)>>

(* C8: with windows of 60000 ms and at most 6 requests: a POST of an       *)
(* address without a window, or whose window has elapsed, is admitted and  *)
(* starts a window with count 1; inside a window the first 6 requests are  *)
(* admitted and the 7th and later are answered 429; the windows of other   *)
(* addresses do not change.                                                *)
C8_FixedWindowRateLimit ==
    [][\A s \in DOMAIN inflight : Handles(s, "POST") =>
          LET a == inflight[s].ip
              w == rateWindows[a]
              fresh == w.count = 0 \/ now - w.start >= 60000
          IN  /\ fresh => /\ last'.status # 429
                          /\ rateWindows'[a] = [start |-> now, count |-> 1]
              /\ (~fresh /\ w.count < 6) =>
                          /\ last'.status # 429
                          /\ rateWindows'[a] = [start |-> w.start, count |-> w.count + 1]
              /\ (~fresh /\ w.count >= 6) =>
                          /\ last'.status = 429
                          /\ rateWindows'[a].start = w.start
              /\ \A b \in DOMAIN rateWindows : b # a => rateWindows'[b] = rateWindows[b]
      ]_vars

\* one address is over the limit in its window while another address, whose
\* window elapsed, has started a new window with its last request
C8_Witness ==
    \E a, b \in DOMAIN rateWindows :
        /\ a # b
        /\ rateWindows[a].count > 6 /\ now - rateWindows[a].start < 60000
        /\ rateWindows[b] = [start |-> now, count |-> 1] /\ now >= 60000
        /\ last.req.method = "POST" /\ last.req.ip = b /\ last.status # 429

(* C9: a GET without credentials, or whose username or password differs    *)
(* from the configured pair, gets 401 with WWW-Authenticate: Basic         *)
(* realm="Admin Area", does not touch the store and returns no message;    *)
(* the response is the same whichever field was wrong.                     *)
C9_UnauthorizedIsRejected ==
    (/\ last.req.method = "GET"
     /\ ~(/\ last.req.auth.given
          /\ last.req.auth.name = adminUser(env)
          /\ last.req.auth.pass = adminPass(env))) =>
        /\ last.status = 401
        /\ last.www = "Basic realm=\"Admin Area\""
        /\ last.text = "Authentication required."
        /\ last.json = <<>>
        /\ ~last.storeRead /\ ~last.storeWrote

\* the right username with a wrong password was rejected while a message is stored
C9_Witness ==
    /\ last.req.method = "GET" /\ last.status = 401
    /\ last.req.auth.given
    /\ last.req.auth.name = adminUser(env)
    /\ last.req.auth.pass # adminPass(env)
    /\ Len(Collection(messagesFile)) >= 1

(* C10: a GET with the configured username and password returns 200 and    *)
(* the full persisted collection as it stands: every message accepted so   *)
(* far, none missing, none extra.                                          *)
C10_AuthorizedReadReturnsAll ==
    (/\ last.req.method = "GET"
     /\ last.req.auth.given
     /\ last.req.auth.name = adminUser(env)
     /\ last.req.auth.pass = adminPass(env)) =>
        /\ last.status = 200
        /\ last.json = Collection(messagesFile)
        /\ last.json = accepted

(* C11: a POST answered 400 or 429 leaves the persisted file unchanged and *)
(* neither reads nor writes the store.                                     *)
C11_RejectionsLeaveStoreAlone ==
    [][\A s \in DOMAIN inflight :
          (Handles(s, "POST") /\ last'.status \in {400, 429}) =>
              /\ messagesFile' = messagesFile
              /\ accepted' = accepted
              /\ ~last'.storeRead /\ ~last'.storeWrote]_vars

\* a request was answered 429 while a message is persisted
C11_Witness ==
    /\ last.req.method = "POST" /\ last.status = 429
    /\ Len(Collection(messagesFile)) >= 1

(* C12: an admitted submission with non-empty name and email and a message *)
(* of length 5000 is accepted and stored in full; one with a message of    *)
(* length 5001 is answered 400 and nothing is written for it; one whose    *)
(* name, email or message is missing or the empty string is answered 400.  *)
C12_ValidationBoundary ==
    (last.req.method = "POST" /\ last.status # 429) =>
        LET b == last.req.body
            Absent(v) == v.kind = "undefined" \/ (v.kind = "string" /\ v.text = <<>>)
            len == StrLen(String(b.message))
        IN  /\ (~Absent(b.name) /\ ~Absent(b.email) /\ ~Absent(b.message) /\ len = 5000) =>
                  /\ last.status = 200
                  /\ Len(Collection(messagesFile)) >= 1
                  /\ Collection(messagesFile)[1].ip = last.req.ip
                  /\ StrLen(Collection(messagesFile)[1].message) >= 5000
            /\ (~Absent(b.name) /\ ~Absent(b.email) /\ ~Absent(b.message) /\ len = 5001) =>
                  /\ last.status = 400
                  /\ last.text = "Message too long."
                  /\ ~last.storeWrote
            /\ (Absent(b.name) \/ Absent(b.email) \/ Absent(b.message)) =>
                  /\ last.status = 400
                  /\ last.text = "Name, email and message are required."

\* a message of length 5000 was accepted and stored with its 5000 characters
C12_Witness ==
    /\ last.req.method = "POST" /\ last.status = 200
    /\ last.req.body.message = JsStr(Longest)
    /\ Collection(messagesFile)[1].message = Longest

(* C13: the file a GET reads is never half-written: it holds a complete    *)
(* document, and the array a successful read returns is the whole          *)
(* collection of that document, as it was before or after any append.      *)
C13_ReadSeesCompleteCollection ==
    (last.req.method = "GET" /\ last.storeRead) =>
        /\ messagesFile.kind = "json"
        /\ ~last.readError => last.json = messagesFile.msgs

\* a is the tail of b
IsSuffix(a, b) ==
    /\ Len(a) <= Len(b)
    /\ \A i \in 1..Len(a) : a[i] = b[Len(b) - Len(a) + i]

(* C14: a restart writes the file only when there is none, and leaves an   *)
(* existing file as it is; an authorized GET after the restart returns     *)
(* every message accepted before the process stopped, in the same order.   *)
C14_PersistenceSurvivesRestart ==
    [][/\ Restart(RestartParams) =>
              (messagesFile.kind # "absent" => messagesFile' = messagesFile)
       /\ \A s \in DOMAIN inflight :
              (Handles(s, "GET") /\ ~requireAdmin(inflight[s].auth, env)) =>
                  /\ last'.status = 200
                  /\ IsSuffix(stopped, last'.json)]_vars

(* C15: the only pair the Access Gate accepts is the one supplied in       *)
(* ADMIN_USER and ADMIN_PASS: a GET is answered 200 only when both are set *)
(* and the request presents exactly them.                                  *)
C15_NoBuiltInIdentity ==
    (last.req.method = "GET" /\ last.status = 200) =>
        /\ env.ADMIN_USER # "" /\ env.ADMIN_PASS # ""
        /\ last.req.auth.given
        /\ last.req.auth.name = env.ADMIN_USER
        /\ last.req.auth.pass = env.ADMIN_PASS

(* C16: in every step the persisted collection either stays as it is or    *)
(* gets one new message at its head: the previous collection is always a   *)
(* suffix of the next one.                                                 *)
C16_AppendOnly ==
    [][LET old == Collection(messagesFile)
           new == Collection(messagesFile')
       IN  \/ new = old
           \/ Len(new) = Len(old) + 1 /\ IsSuffix(old, new)]_vars

(* C17: a POST is answered {ok: true} only if the existing collection was  *)
(* read without error, and the file then holds the new message followed by *)
(* the messages persisted before; a POST during which reading or parsing   *)
(* the file failed is answered 500.                                        *)
C17_NoErrorTurnedIntoSuccess ==
    [][\A s \in DOMAIN inflight : Handles(s, "POST") =>
          /\ last'.status = 200 =>
                /\ ~last'.readError
                /\ Len(Collection(messagesFile')) = Len(Collection(messagesFile)) + 1
                /\ IsSuffix(Collection(messagesFile), Collection(messagesFile'))
          /\ last'.readError => last'.status = 500]_vars

\* s with every "<" written as "&lt;" and every ">" as "&gt;", nothing else changed
EscapeOnly(s) ==
    [i \in 1..Len(s) |->
        IF s[i].c = "<" THEN Run("&lt;", s[i].n)
        ELSE IF s[i].c = ">" THEN Run("&gt;", s[i].n)
        ELSE s[i]]

\* s without the whitespace before its first and after its last other character
Trimmed(s) ==
    LET inked == {i \in 1..Len(s) : s[i].c # " "}
    IN  IF inked = {} THEN <<>>
        ELSE SubSeq(s, CHOOSE i \in inked : \A j \in inked : i <= j,
                       CHOOSE i \in inked : \A j \in inked : i >= j)

\* the message the last accepted POST stored
StoredByLast == Collection(messagesFile)[1]

(* C18 as stated: every stored field is the submitted string with "<" and  *)
(* ">" escaped and every other character, leading and trailing whitespace  *)
(* included, left as submitted.                                            *)
C18_OnlyEscaping ==
    (last.req.method = "POST" /\ last.status = 200) =>
        /\ StoredByLast.name = EscapeOnly(String(last.req.body.name))
        /\ StoredByLast.email = EscapeOnly(String(last.req.body.email))
        /\ StoredByLast.message = EscapeOnly(String(last.req.body.message))

(* C18 as amended: every stored field is the submitted string with its     *)
(* leading and trailing whitespace removed and then "<" and ">" escaped;   *)
(* every other character is left as submitted.                             *)
C18_TrimThenEscape ==
    (last.req.method = "POST" /\ last.status = 200) =>
        /\ StoredByLast.name = EscapeOnly(Trimmed(String(last.req.body.name)))
        /\ StoredByLast.email = EscapeOnly(Trimmed(String(last.req.body.email)))
        /\ StoredByLast.message = EscapeOnly(Trimmed(String(last.req.body.message)))

\* the submitted message " a " was stored as "a"
C18_Witness ==
    /\ last.req.method = "POST" /\ last.status = 200
    /\ last.req.body.message = JsStr(Padded)
    /\ StoredByLast.message = Plain

(* C19: the rate limit is decided before the body is validated: a POST     *)
(* counts toward the window of its address whether its body is valid or    *)
(* not, and a POST over the limit is answered 429, never 400 or 200,       *)
(* whatever its body.                                                      *)
C19_AdmissionPrecedesValidation ==
    [][\A s \in DOMAIN inflight : Handles(s, "POST") =>
          LET a == inflight[s].ip
              w == rateWindows[a]
              fresh == w.count = 0 \/ now - w.start >= 60000
              over == ~fresh /\ w.count >= 6
          IN  /\ over => last'.status = 429
              /\ ~over => /\ last'.status # 429
                          /\ rateWindows'[a].count = IF fresh THEN 1 ELSE w.count + 1
              /\ last'.status = 400 => /\ validate(inflight[s].body) # ""
                                       /\ rateWindows'[a] # w
      ]_vars

\* a request without a body arrived over the limit and was answered 429
C19_Witness ==
    /\ last.req.method = "POST" /\ last.status = 429
    /\ last.req.body = NoBody

(* C20: no GET, authorized or not, with or without a read error, changes   *)
(* the persisted file or the rate windows.                                 *)
C20_ReadsNeverWrite ==
    [][\A s \in DOMAIN inflight : Handles(s, "GET") =>
          /\ messagesFile' = messagesFile
          /\ rateWindows' = rateWindows
          /\ ~last'.storeWrote]_vars

\* an authorized GET hit a read error and the file still holds its messages
C20_Witness ==
    /\ last.req.method = "GET" /\ last.status = 200 /\ last.readError
    /\ messagesFile.kind = "json" /\ Len(messagesFile.msgs) >= 1
    /\ \E a \in DOMAIN rateWindows : rateWindows[a].count >= 1

====
